---- MODULE Spec2Model ----
(***************************************************************************)
(* The Nuua compiler (AST -> bytecode emitter) as a state machine.         *)
(*                                                                         *)
(* The recursive walk of Compiler::compile is unfolded on an explicit      *)
(* control stack: every action is the part of one handler that runs        *)
(* between two recursive calls (or the whole handler when it makes none).  *)
(* The head of stack is what the C++ call stack would execute next.      *)
(***************************************************************************)
EXTENDS Integers, Sequences, FiniteSets

VARIABLES
    structure,       \* the parser's output: the sequence of top-level statements
    program,         \* Program: the three Memory regions
    current_memory,  \* Compiler::current_memory, the region selector
    current_line,    \* Compiler::current_line
    stack,           \* pending calls and handler continuations, head first
    status,          \* "compiling", "done" (compile returned) or "fatal" (exit(EXIT_FAILURE))
    branches,        \* observation: one record per BRANCH_FALSE statement (if / while)
    literals,        \* observation: one record per function literal entered
    emitter          \* observation: per region, for every code slot, the function literal
                     \* that was being compiled when the slot was appended (0: none)

vars == <<structure, program, current_memory, current_line, stack, status,
          branches, literals, emitter>>

(***************************************************************************)
(* Bounds of the model.                                                    *)
(***************************************************************************)
\* Statement nodes of a generated program (nesting and sequencing together).
MaxNodes == 3

(***************************************************************************)
(* Values of the constants pool.  Every value has the same three fields so *)
(* that values of different kinds can be compared.                         *)
(***************************************************************************)
IntValue(n) == [type |-> "int", i |-> n, s |-> ""]
FloatValue(n) == [type |-> "float", i |-> n, s |-> ""]
StringValue(str) == [type |-> "string", i |-> 0, s |-> str]
BoolValue(b) == [type |-> "bool", i |-> IF b THEN 1 ELSE 0, s |-> ""]
NoneValue == [type |-> "none", i |-> 0, s |-> ""]
TypeValue(name) == [type |-> "type", i |-> 0, s |-> name]

(***************************************************************************)
(* A code slot is an opcode or an operand (an index into the region's      *)
(* constants pool).  In the C++ both are integers of one stream; the tag   *)
(* op is "" for an operand slot.                                         *)
(***************************************************************************)
OpSlot(opcode) == [op |-> opcode, index |-> 0]
OperandSlot(index) == [op |-> "", index |-> index]

Regions == {"program", "functions", "classes"}
EmptyMemory == [code |-> <<>>, constants |-> <<>>, lines |-> <<>>]

\* Slot k and pool entry i of a memory, counted from 0 as the C++ does.
Slot(memory, k) == memory.code[k + 1]
Constant(memory, i) == memory.constants[i + 1]

(***************************************************************************)
(* Tokens (Lexer/src/tokens.cpp).                                          *)
(***************************************************************************)
token_names == <<
    "TOKEN_NEW_LINE", "TOKEN_LEFT_PAREN", "TOKEN_RIGHT_PAREN", "TOKEN_LEFT_BRACE",
    "TOKEN_RIGHT_BRACE", "TOKEN_COMMA", "TOKEN_DOT", "TOKEN_MINUS", "TOKEN_PLUS",
    "TOKEN_SLASH", "TOKEN_STAR", "TOKEN_RIGHT_ARROW", "TOKEN_LEFT_ARROW", "TOKEN_BANG",
    "TOKEN_BANG_EQUAL", "TOKEN_EQUAL", "TOKEN_EQUAL_EQUAL", "TOKEN_HIGHER",
    "TOKEN_HIGHER_EQUAL", "TOKEN_LOWER", "TOKEN_LOWER_EQUAL", "TOKEN_IDENTIFIER",
    "TOKEN_STRING", "TOKEN_INTEGER", "TOKEN_FLOAT", "TOKEN_OR", "TOKEN_AND",
    "TOKEN_CLASS", "TOKEN_ELSE", "TOKEN_TRUE", "TOKEN_FALSE", "TOKEN_WHILE",
    "TOKEN_FOR", "TOKEN_IF", "TOKEN_NONE", "TOKEN_SELF", "TOKEN_EOF", "TOKEN_PERCENT",
    "TOKEN_LEFT_SQUARE", "TOKEN_RIGHT_SQUARE", "TOKEN_BIG_RIGHT_ARROW", "TOKEN_COLON",
    "TOKEN_RETURN", "TOKEN_PRINT" >>

TokenTypes == {token_names[k] : k \in DOMAIN token_names}

Token(type, line) == [type |-> type, line |-> line]

\* The operator tokens of the token list: the arithmetic and comparison ones a
\* Binary node carries, and the two logical ones a Logical node carries.
ArithmeticTokens == {"TOKEN_PLUS", "TOKEN_MINUS", "TOKEN_STAR", "TOKEN_SLASH"}
ComparisonTokens == {"TOKEN_EQUAL_EQUAL", "TOKEN_BANG_EQUAL", "TOKEN_LOWER",
                     "TOKEN_LOWER_EQUAL", "TOKEN_HIGHER", "TOKEN_HIGHER_EQUAL"}
LogicalTokens == {"TOKEN_OR", "TOKEN_AND"}

(***************************************************************************)
(* AST nodes, as the compiler reads them: a rule tag, a source line and    *)
(* the fields of the variant.  An optional child is a sequence of length   *)
(* 0 or 1.                                                                 *)
(***************************************************************************)
\* A literal node holds its value as the Value the compiler builds from it, and a
\* List node its element vector under the name elements, so that every field has
\* one type over all nodes.
Integer(value, line) == [rule |-> "RULE_INTEGER", line |-> line, value |-> IntValue(value)]
Float(value, line) == [rule |-> "RULE_FLOAT", line |-> line, value |-> FloatValue(value)]
String(value, line) == [rule |-> "RULE_STRING", line |-> line, value |-> StringValue(value)]
Boolean(value, line) == [rule |-> "RULE_BOOLEAN", line |-> line, value |-> BoolValue(value)]
None(line) == [rule |-> "RULE_NONE", line |-> line]
List(value, line) == [rule |-> "RULE_LIST", line |-> line, elements |-> value]
Dictionary(value, key_order, line) ==
    [rule |-> "RULE_DICTIONARY", line |-> line, value |-> value, key_order |-> key_order]
Group(expression, line) == [rule |-> "RULE_GROUP", line |-> line, expression |-> expression]
Unary(op, right, line) == [rule |-> "RULE_UNARY", line |-> line, op |-> op, right |-> right]
Binary(left, op, right, line) ==
    [rule |-> "RULE_BINARY", line |-> line, left |-> left, op |-> op, right |-> right]
Variable(name, line) == [rule |-> "RULE_VARIABLE", line |-> line, name |-> name]
Assign(name, value, line) == [rule |-> "RULE_ASSIGN", line |-> line, name |-> name, value |-> value]
AssignAccess(name, index, value, line) ==
    [rule |-> "RULE_ASSIGN_ACCESS", line |-> line, name |-> name, index |-> index, value |-> value]
Logical(left, op, right, line) ==
    [rule |-> "RULE_LOGICAL", line |-> line, left |-> left, op |-> op, right |-> right]
Function(arguments, return_type, body, line) ==
    [rule |-> "RULE_FUNCTION", line |-> line, arguments |-> arguments,
     return_type |-> return_type, body |-> body]
Call(callee, arguments, line) ==
    [rule |-> "RULE_CALL", line |-> line, callee |-> callee, arguments |-> arguments]
Access(name, index, line) == [rule |-> "RULE_ACCESS", line |-> line, name |-> name, index |-> index]

PrintStatement(expression, line) == [rule |-> "RULE_PRINT", line |-> line, expression |-> expression]
ExpressionStatement(expression, line) ==
    [rule |-> "RULE_EXPRESSION_STATEMENT", line |-> line, expression |-> expression]
Declaration(name, type, initializer, line) ==
    [rule |-> "RULE_DECLARATION", line |-> line, name |-> name, type |-> type,
     initializer |-> initializer]
Return(value, line) == [rule |-> "RULE_RETURN", line |-> line, value |-> value]
If(condition, thenBranch, elseBranch, line) ==
    [rule |-> "RULE_IF", line |-> line, condition |-> condition,
     thenBranch |-> thenBranch, elseBranch |-> elseBranch]
While(condition, body, line) ==
    [rule |-> "RULE_WHILE", line |-> line, condition |-> condition, body |-> body]
\* A node that carries only a rule tag: the bare RULE_EXPRESSION / RULE_STATEMENT
\* placeholders, or a tag the dispatching switch has no case for.
BareRule(rule, line) == [rule |-> rule, line |-> line]

(***************************************************************************)
(* The inputs: parser outputs.  Generated programs are all the statement   *)
(* sequences of at most MaxNodes statement nodes built from two simple     *)
(* statements and three compound ones (if without else, while, a function  *)
(* literal), nested and sequenced in every way; the samples add one        *)
(* program for every other rule and for every operator token.              *)
(***************************************************************************)
SimpleStatements(line) ==
    { PrintStatement(Variable("a", line), line),
      ExpressionStatement(Assign("a", Integer(1, line), line), line) }

CompoundStatements(body, line) ==
    { If(Variable("a", line), body, <<>>, line),
      While(Binary(Variable("a", line), Token("TOKEN_LOWER", line), Integer(10, line), line),
            body, line),
      ExpressionStatement(
          Function(<<Declaration("x", "int", <<>>, line)>>, "int", body, line), line) }

RECURSIVE Statements(_, _), Bodies(_, _)
\* The statements of exactly n statement nodes, starting at line.
Statements(n, line) ==
    IF n = 0 THEN {}
    ELSE (IF n = 1 THEN SimpleStatements(line) ELSE {})
         \cup UNION { CompoundStatements(body, line) : body \in Bodies(n - 1, line + 1) }
\* The statement sequences of exactly n statement nodes in all.
Bodies(n, line) ==
    IF n = 0 THEN { <<>> }
    ELSE UNION { { <<s>> \o b : s \in Statements(k, line), b \in Bodies(n - k, line + 1) }
                 : k \in 1..n }

GeneratedPrograms == UNION { Bodies(n, 1) : n \in 0..MaxNodes }

\* The six end-to-end scenarios.
Scenario1 == << PrintStatement(Binary(Integer(1, 1), Token("TOKEN_PLUS", 1), Integer(2, 1), 1), 1) >>
Scenario2 == << Declaration("x", "int", <<Integer(5, 1)>>, 1) >>
Scenario3 ==
    << If(Binary(Variable("a", 1), Token("TOKEN_EQUAL_EQUAL", 1), Integer(1, 1), 1),
          << PrintStatement(Variable("a", 1), 1) >>, <<>>, 1) >>
Scenario4 ==
    << While(Binary(Variable("a", 1), Token("TOKEN_LOWER", 1), Integer(10, 1), 1),
             << ExpressionStatement(
                    Assign("a", Binary(Variable("a", 1), Token("TOKEN_PLUS", 1), Integer(1, 1), 1), 1),
                    1) >>, 1) >>
Scenario5 ==
    << ExpressionStatement(
           Assign("f",
                  Function(<<Declaration("x", "int", <<>>, 1)>>, "int",
                           << Return(Binary(Variable("x", 1), Token("TOKEN_PLUS", 1),
                                            Integer(1, 1), 1), 1) >>, 1), 1), 1),
       ExpressionStatement(Call("f", <<Integer(2, 2)>>, 2), 2) >>
Scenario6 == << ExpressionStatement(List(<<Integer(1, 1), Integer(2, 1), Integer(3, 1)>>, 1), 1) >>

\* A function literal with no argument and an empty body, for use inside samples.
EmptyFunction(line) == Function(<<>>, "none", <<>>, line)

SampleExpressions ==
    { Float(3, 1), String("s", 1), Boolean(TRUE, 1), None(1),
      List(<<>>, 1), List(<<Variable("a", 1), EmptyFunction(2)>>, 1),
      Dictionary([k1 |-> Integer(1, 1), k2 |-> Variable("a", 2)], <<"k1", "k2">>, 1),
      Dictionary([k1 |-> EmptyFunction(1)], <<"k1">>, 1),
      Group(Variable("a", 1), 1),
      AssignAccess("l", Integer(0, 1), Variable("a", 1), 1),
      Access("l", Integer(0, 1), 1),
      Call("f", <<>>, 1), Call("f", <<Variable("a", 1), Integer(2, 2)>>, 1),
      EmptyFunction(1),
      Function(<<Declaration("x", "int", <<>>, 1), Declaration("y", "int", <<Integer(0, 1)>>, 1)>>,
               "int", << Return(Variable("x", 2), 2) >>, 1),
      Function(<<Declaration("g", "fun", <<EmptyFunction(1)>>, 1)>>, "none",
               << ExpressionStatement(EmptyFunction(2), 2) >>, 1),
      BareRule("RULE_EXPRESSION", 1) }
    \cup { Binary(Variable("a", 1), Token(t, 1), Integer(1, 1), 1) :
           t \in TokenTypes \ LogicalTokens }
    \cup { Logical(Variable("a", 1), Token(t, 1), Variable("b", 1), 1) : t \in LogicalTokens }
    \cup { Unary(Token(t, 1), Variable("a", 1), 1) : t \in TokenTypes }

SamplePrograms ==
    { Scenario1, Scenario2, Scenario3, Scenario4, Scenario5, Scenario6,
      << Declaration("x", "int", <<>>, 1) >>,
      << BareRule("RULE_STATEMENT", 1) >>,
      << BareRule("RULE_EXPRESSION", 1) >>,
      << BareRule("RULE_INTEGER", 1) >>,
      << If(Variable("a", 1), << PrintStatement(Integer(1, 2), 2) >>,
            << PrintStatement(Integer(2, 4), 4) >>, 1) >>,
      << If(EmptyFunction(1), << ExpressionStatement(EmptyFunction(2), 2) >>, <<>>, 1),
         PrintStatement(Variable("a", 3), 3) >>,
      << While(EmptyFunction(1), << ExpressionStatement(EmptyFunction(2), 2) >>, 1),
         PrintStatement(Variable("a", 3), 3) >>,
      << PrintStatement(Variable("a", 1), 1), BareRule("RULE_STATEMENT", 2),
         PrintStatement(Variable("a", 3), 3) >> }
    \cup { << ExpressionStatement(e, 1) >> : e \in SampleExpressions }
    \cup { << While(Variable("a", 1), << ExpressionStatement(e, 2) >>, 1) >> :
           e \in { Binary(Variable("a", 2), Token("TOKEN_PERCENT", 2), Integer(1, 2), 2),
                   Logical(Variable("a", 2), Token("TOKEN_AND", 2), Variable("b", 2), 2) } }

Programs == GeneratedPrograms \cup SamplePrograms

(***************************************************************************)
(* The emitter's primitives.  prog is the Program, selector the value  *)
(* of current_memory, line the value of current_line.                    *)
(***************************************************************************)
get_current_memory(selector) ==
    CASE selector = "FUNCTIONS_MEMORY" -> "functions"
      [] selector = "CLASSES_MEMORY" -> "classes"
      [] OTHER -> "program"

add_opcode(prog, selector, line, opcode) ==
    LET m == get_current_memory(selector)
    IN [prog EXCEPT ![m].code = Append(@, OpSlot(opcode)),
                    ![m].lines = Append(@, line)]

\* Off by one: the size of the pool instead of the index of its last entry.
last_index_is_size(prog, selector) ==
    Len(prog[get_current_memory(selector)].constants)

\* constants.size() - 1, the index add_constant_only writes and returns.
last_index(prog, selector) ==
    Len(prog[get_current_memory(selector)].constants) - 1

add_constant_only(prog, selector, value) ==
    LET m == get_current_memory(selector)
        pushed == [prog EXCEPT ![m].constants = Append(@, value)]
    IN [pushed EXCEPT ![m].code = Append(@, OperandSlot(last_index(pushed, selector)))]

add_constant(prog, selector, line, value) ==
    add_constant_only(add_opcode(prog, selector, line, "OP_PUSH"), selector, value)

\* Off by one: overwrites the entry after the one asked for.
modify_constant_next(prog, selector, index, value) ==
    LET m == get_current_memory(selector)
    IN IF index + 2 \in DOMAIN prog[m].constants
       THEN [prog EXCEPT ![m].constants[index + 2] = value]
       ELSE prog

\* constants[index] = value.  The C++ does not check the index; an index outside
\* the pool is undefined behaviour and never arises from the handlers below.
modify_constant(prog, selector, index, value) ==
    LET m == get_current_memory(selector)
    IN IF index + 1 \in DOMAIN prog[m].constants
       THEN [prog EXCEPT ![m].constants[index + 1] = value]
       ELSE prog

\* Forgets the selector: always the length of the program region.
current_code_line_program(prog, selector) ==
    Len(prog["program"].code)

current_code_line(prog, selector) ==
    Len(prog[get_current_memory(selector)].code)

\* add_opcode(opcode) followed by add_constant_only of each operand in turn.
RECURSIVE add_constants(_, _, _)
add_constants(prog, selector, values) ==
    IF values = <<>> THEN prog
    ELSE add_constants(add_constant_only(prog, selector, Head(values)), selector, Tail(values))

emit(prog, selector, line, opcode, operands) ==
    add_constants(add_opcode(prog, selector, line, opcode), selector, operands)

\* The ONLY_STORE loop of a function literal: i from arguments.size() - 1 down to 0.
RECURSIVE bind_arguments(_, _, _, _, _)
bind_arguments(prog, selector, line, arguments, i) ==
    IF i < 0 THEN prog
    ELSE bind_arguments(
             emit(prog, selector, line, "OP_ONLY_STORE", <<StringValue(arguments[i + 1].name)>>),
             selector, line, arguments, i - 1)

\* The offsets the branch handlers compute.  current and start are uint32_t; the
\* code only grows between the two readings, so the difference never wraps.
IfOffset(current, start) == current - start
WhileExitOffset(current, start) == current - start + 1
\* -(current_code_line() - initial_index) in double arithmetic, cast to int64_t.
RJumpOffset(current, initial_index) == -(current - initial_index)

\* Compiler::compile(Token, bool): the opcode of an operator token, "" when the
\* switch has no case for it.
TokenOpcode(type, unary) ==
    CASE type = "TOKEN_PLUS" -> "OP_ADD"
      [] type = "TOKEN_MINUS" -> (IF unary THEN "OP_MINUS" ELSE "OP_SUB")
      [] type = "TOKEN_STAR" -> "OP_MUL"
      [] type = "TOKEN_SLASH" -> "OP_DIV"
      [] type = "TOKEN_BANG" -> "OP_NOT"
      [] type = "TOKEN_EQUAL" -> "OP_STORE"
      [] type = "TOKEN_EQUAL_EQUAL" -> "OP_EQ"
      [] type = "TOKEN_BANG_EQUAL" -> "OP_NEQ"
      [] type = "TOKEN_LOWER" -> "OP_LT"
      [] type = "TOKEN_LOWER_EQUAL" -> "OP_LTE"
      [] type = "TOKEN_HIGHER" -> "OP_HT"
      [] type = "TOKEN_HIGHER_EQUAL" -> "OP_HTE"
      [] OTHER -> ""

\* The value a literal node pushes.
LiteralValue(node) ==
    IF node.rule = "RULE_NONE" THEN NoneValue ELSE node.value

LiteralRules == {"RULE_INTEGER", "RULE_FLOAT", "RULE_STRING", "RULE_BOOLEAN", "RULE_NONE"}

(***************************************************************************)
(* The control stack.                                                      *)
(***************************************************************************)
StatementTask(node) == [t |-> "statement", node |-> node]
ExpressionTask(node) == [t |-> "expression", node |-> node]
TokenTask(op, unary) == [t |-> "token", op |-> op, unary |-> unary]
\* What is left of a handler after its last recursive call: one opcode and its operands.
EmitTask(opcode, operands) == [t |-> "emit", opcode |-> opcode, operands |-> operands]

RECURSIVE StatementTasks(_), ExpressionTasks(_), Reverse(_), Copies(_, _)
StatementTasks(nodes) ==
    IF nodes = <<>> THEN <<>> ELSE <<StatementTask(Head(nodes))>> \o StatementTasks(Tail(nodes))
ExpressionTasks(nodes) ==
    IF nodes = <<>> THEN <<>> ELSE <<ExpressionTask(Head(nodes))>> \o ExpressionTasks(Tail(nodes))
Reverse(seq) ==
    IF seq = <<>> THEN <<>> ELSE Append(Reverse(Tail(seq)), Head(seq))
Copies(x, n) ==
    IF n <= 0 THEN <<>> ELSE Append(Copies(x, n - 1), x)

Running == status = "compiling" /\ stack # <<>>
AtStatement(rules) ==
    Running /\ Head(stack).t = "statement" /\ Head(stack).node.rule \in rules
AtExpression(rules) ==
    Running /\ Head(stack).t = "expression" /\ Head(stack).node.rule \in rules
At(t) == Running /\ Head(stack).t = t

StatementRules == {"RULE_EXPRESSION", "RULE_STATEMENT", "RULE_PRINT",
                   "RULE_EXPRESSION_STATEMENT", "RULE_DECLARATION", "RULE_RETURN",
                   "RULE_IF", "RULE_WHILE"}
ExpressionRules == LiteralRules \cup
                   {"RULE_LIST", "RULE_DICTIONARY", "RULE_GROUP", "RULE_UNARY", "RULE_BINARY",
                    "RULE_VARIABLE", "RULE_ASSIGN", "RULE_ASSIGN_ACCESS", "RULE_LOGICAL",
                    "RULE_FUNCTION", "RULE_CALL", "RULE_ACCESS"}

(***************************************************************************)
(* Observation of the run (history variables; the compiler does not read   *)
(* them).                                                                  *)
(***************************************************************************)
\* The innermost function literal being compiled (its number in literals), 0 if none.
OpenLiterals(lits) == { k \in DOMAIN lits : ~lits[k].closed }
Innermost(set) == IF set = {} THEN 0 ELSE CHOOSE k \in set : \A j \in set : j <= k
InnermostLiteral == Innermost(OpenLiterals(literals))
\* The innermost if / while whose placeholder is not patched yet.
InnermostBranch == Innermost({ k \in DOMAIN branches : branches[k].stage # "patched" })

\* Every slot appended by this step was appended on behalf of literal by.
Emitted(before, after, by, log) ==
    [r \in Regions |-> log[r] \o Copies(by, Len(after[r].code) - Len(before[r].code))]
Observe == emitter' = Emitted(program, program', InnermostLiteral, emitter)

NewBranch(kind, selector, prog) ==
    [kind |-> kind, stage |-> "entered", memory |-> get_current_memory(selector),
     loop_head |-> Len(prog[get_current_memory(selector)].code),
     operand |-> 0, index |-> 0, rjump_operand |-> 0, end |-> 0,
     patches |-> 0, patch_memory |-> "", patch_index |-> 0, patch_pool |-> 0]

(***************************************************************************)
(* Init: the compiler as constructed, with the parser's output at hand and *)
(* Compiler::compile(source) about to run its loop over structure. *)
(* current_line has no initializer in this file: both values are allowed.  *)
(***************************************************************************)
Init ==
    /\ structure \in Programs
    /\ program = [r \in Regions |-> EmptyMemory]
    /\ current_memory = "PROGRAM_MEMORY"
    /\ current_line \in {0, 1}
    /\ stack = StatementTasks(structure)
    /\ status = "compiling"
    /\ branches = <<>>
    /\ literals = <<>>
    /\ emitter = [r \in Regions |-> <<>>]

\* exit(EXIT_FAILURE): nothing more is emitted; the offending call stays at the head.
Fatal(line) ==
    /\ current_line' = line
    /\ status' = "fatal"
    /\ UNCHANGED <<structure, program, current_memory, stack, branches, literals, emitter>>

\* A handler that emits nothing before its first recursive call.
Descend(line, tasks) ==
    /\ current_line' = line
    /\ stack' = tasks \o Tail(stack)
    /\ UNCHANGED <<structure, program, current_memory, status, branches, literals, emitter>>

(***************************************************************************)
(* Compiler::compile of a Statement                                      *)
(***************************************************************************)
CompileBareRule ==
    /\ AtStatement({"RULE_EXPRESSION", "RULE_STATEMENT"})
    /\ Fatal(Head(stack).node.line)

CompilePrint ==
    /\ AtStatement({"RULE_PRINT"})
    /\ LET node == Head(stack).node
       IN Descend(node.line, <<ExpressionTask(node.expression), EmitTask("OP_PRINT", <<>>)>>)

CompileExpressionStatement ==
    /\ AtStatement({"RULE_EXPRESSION_STATEMENT"})
    /\ LET node == Head(stack).node
       IN Descend(node.line, <<ExpressionTask(node.expression), EmitTask("OP_POP", <<>>)>>)

CompileDeclaration ==
    /\ AtStatement({"RULE_DECLARATION"})
    /\ LET declaration == Head(stack).node
       IN /\ current_line' = declaration.line
          /\ program' = emit(program, current_memory, declaration.line, "OP_DECLARE",
                             <<StringValue(declaration.name), TypeValue(declaration.type)>>)
          /\ stack' = (IF declaration.initializer # <<>>
                       THEN <<ExpressionTask(declaration.initializer[1]),
                              EmitTask("OP_STORE", <<StringValue(declaration.name)>>),
                              EmitTask("OP_POP", <<>>)>>
                       ELSE <<>>) \o Tail(stack)
    /\ UNCHANGED <<structure, current_memory, status, branches, literals>>
    /\ Observe

CompileReturn ==
    /\ AtStatement({"RULE_RETURN"})
    /\ LET ret == Head(stack).node
       IN Descend(ret.line, <<ExpressionTask(ret.value), EmitTask("OP_RETURN", <<>>)>>)

\* RULE_IF up to the call that compiles the condition; nothing at all when the
\* else branch is not empty.
CompileIf ==
    /\ AtStatement({"RULE_IF"})
    /\ LET rif == Head(stack).node
       IN Descend(rif.line,
                  IF Len(rif.elseBranch) = 0
                  THEN <<ExpressionTask(rif.condition),
                         [t |-> "if_branch", thenBranch |-> rif.thenBranch]>>
                  ELSE <<>>)

\* RULE_IF from add_opcode(OP_BRANCH_FALSE) to the loop over the then branch.
IfBranch ==
    /\ At("if_branch")
    /\ LET p1 == add_opcode(program, current_memory, current_line, "OP_BRANCH_FALSE")
           p2 == add_constant_only(p1, current_memory, IntValue(0))
           constant_index == last_index(p2, current_memory)
           start_index == current_code_line(p2, current_memory)
           m == get_current_memory(current_memory)
       IN /\ program' = p2
          /\ stack' = StatementTasks(Head(stack).thenBranch)
                      \o <<[t |-> "if_patch", constant_index |-> constant_index,
                            start_index |-> start_index]>>
                      \o Tail(stack)
          /\ branches' = Append(branches,
                 [NewBranch("if", current_memory, program) EXCEPT
                      !.stage = "emitted",
                      !.operand = Len(p1[m].code),
                      !.index = Len(p1[m].constants)])
    /\ UNCHANGED <<structure, current_memory, current_line, status, literals>>
    /\ Observe

\* What the patching step of an if or a while is seen to do: the region that is
\* active, the index it passes, the size of that region's pool, and where the
\* statement's own region ends.
Patched(b, selector, index, prog) ==
    [b EXCEPT !.stage = "patched",
              !.patches = @ + 1,
              !.patch_memory = get_current_memory(selector),
              !.patch_index = index,
              !.patch_pool = Len(prog[get_current_memory(selector)].constants),
              !.end = Len(prog[b.memory].code)]

\* RULE_IF: the back-patch after the then branch.
IfPatch ==
    /\ At("if_patch")
    /\ LET task == Head(stack)
           offset == IfOffset(current_code_line(program, current_memory), task.start_index)
       IN /\ program' = modify_constant(program, current_memory, task.constant_index,
                                        IntValue(offset))
          /\ branches' = [branches EXCEPT ![InnermostBranch] =
                              Patched(@, current_memory, task.constant_index, program)]
    /\ stack' = Tail(stack)
    /\ UNCHANGED <<structure, current_memory, current_line, status, literals>>
    /\ Observe

\* RULE_WHILE up to the call that compiles the condition.
CompileWhile ==
    /\ AtStatement({"RULE_WHILE"})
    /\ LET rwhile == Head(stack).node
           initial_index == current_code_line(program, current_memory)
       IN /\ current_line' = rwhile.line
          /\ stack' = <<ExpressionTask(rwhile.condition),
                        [t |-> "while_branch", body |-> rwhile.body,
                         initial_index |-> initial_index]>> \o Tail(stack)
    /\ branches' = Append(branches, NewBranch("while", current_memory, program))
    /\ UNCHANGED <<structure, program, current_memory, status, literals, emitter>>

\* RULE_WHILE from add_opcode(OP_BRANCH_FALSE) to the loop over the body.
WhileBranch ==
    /\ At("while_branch")
    /\ LET p1 == add_opcode(program, current_memory, current_line, "OP_BRANCH_FALSE")
           p2 == add_constant_only(p1, current_memory, IntValue(0))
           constant_index == last_index(p2, current_memory)
           start_index == current_code_line(p2, current_memory)
           m == get_current_memory(current_memory)
       IN /\ program' = p2
          /\ stack' = StatementTasks(Head(stack).body)
                      \o <<[t |-> "while_end", constant_index |-> constant_index,
                            start_index |-> start_index,
                            initial_index |-> Head(stack).initial_index]>>
                      \o Tail(stack)
          /\ branches' = [branches EXCEPT ![InnermostBranch] =
                              [@ EXCEPT !.stage = "emitted",
                                        !.operand = Len(p1[m].code),
                                        !.index = Len(p1[m].constants)]]
    /\ UNCHANGED <<structure, current_memory, current_line, status, literals>>
    /\ Observe

\* RULE_WHILE after the body: the RJUMP and the back-patch of the exit offset.
WhileEnd ==
    /\ At("while_end")
    /\ LET task == Head(stack)
           p1 == add_opcode(program, current_memory, current_line, "OP_RJUMP")
           jump == RJumpOffset(current_code_line(p1, current_memory), task.initial_index)
           p2 == add_constant_only(p1, current_memory, IntValue(jump))
           exit == WhileExitOffset(current_code_line(p2, current_memory), task.start_index)
           b == branches[InnermostBranch]
       IN /\ program' = modify_constant(p2, current_memory, task.constant_index, IntValue(exit))
          /\ branches' = [branches EXCEPT ![InnermostBranch] =
                              [Patched(@, current_memory, task.constant_index, p2) EXCEPT
                                   !.rjump_operand = Len(p1[b.memory].code)]]
    /\ stack' = Tail(stack)
    /\ UNCHANGED <<structure, current_memory, current_line, status, literals>>
    /\ Observe

\* The default case of the statement switch.
CompileInvalidStatement ==
    /\ Running
    /\ Head(stack).t = "statement"
    /\ Head(stack).node.rule \notin StatementRules
    /\ Fatal(Head(stack).node.line)

(***************************************************************************)
(* Compiler::compile of an Expression                                      *)
(***************************************************************************)
\* RULE_INTEGER, RULE_FLOAT, RULE_STRING, RULE_BOOLEAN, RULE_NONE: add_constant.
CompileLiteral ==
    /\ AtExpression(LiteralRules)
    /\ LET node == Head(stack).node
       IN /\ current_line' = node.line
          /\ program' = add_constant(program, current_memory, node.line, LiteralValue(node))
    /\ stack' = Tail(stack)
    /\ UNCHANGED <<structure, current_memory, status, branches, literals>>
    /\ Observe

\* The elements last to first, then OP_LIST and the size as a double.
CompileList ==
    /\ AtExpression({"RULE_LIST"})
    /\ LET list == Head(stack).node
       IN Descend(list.line,
                  ExpressionTasks(Reverse(list.elements))
                  \o <<EmitTask("OP_LIST", <<FloatValue(Len(list.elements))>>)>>)

\* For each key, last to first: add_constant(key), then the value's expression.
RECURSIVE DictionaryTasks(_, _)
DictionaryTasks(dictionary, i) ==
    IF i < 0 THEN <<>>
    ELSE <<EmitTask("OP_PUSH", <<StringValue(dictionary.key_order[i + 1])>>),
           ExpressionTask(dictionary.value[dictionary.key_order[i + 1]])>>
         \o DictionaryTasks(dictionary, i - 1)

CompileDictionary ==
    /\ AtExpression({"RULE_DICTIONARY"})
    /\ LET dictionary == Head(stack).node
       IN Descend(dictionary.line,
                  DictionaryTasks(dictionary, Len(dictionary.key_order) - 1)
                  \o <<EmitTask("OP_DICTIONARY",
                                <<FloatValue(Cardinality(DOMAIN dictionary.value))>>)>>)

CompileGroup ==
    /\ AtExpression({"RULE_GROUP"})
    /\ LET node == Head(stack).node
       IN Descend(node.line, <<ExpressionTask(node.expression)>>)

CompileUnary ==
    /\ AtExpression({"RULE_UNARY"})
    /\ LET unary == Head(stack).node
       IN Descend(unary.line, <<ExpressionTask(unary.right), TokenTask(unary.op, TRUE)>>)

CompileBinary ==
    /\ AtExpression({"RULE_BINARY"})
    /\ LET binary == Head(stack).node
       IN Descend(binary.line, <<ExpressionTask(binary.left), ExpressionTask(binary.right),
                                 TokenTask(binary.op, FALSE)>>)

CompileVariable ==
    /\ AtExpression({"RULE_VARIABLE"})
    /\ LET node == Head(stack).node
       IN /\ current_line' = node.line
          /\ program' = emit(program, current_memory, node.line, "OP_LOAD",
                             <<StringValue(node.name)>>)
    /\ stack' = Tail(stack)
    /\ UNCHANGED <<structure, current_memory, status, branches, literals>>
    /\ Observe

CompileAssign ==
    /\ AtExpression({"RULE_ASSIGN"})
    /\ LET assign == Head(stack).node
       IN Descend(assign.line, <<ExpressionTask(assign.value),
                                 EmitTask("OP_STORE", <<StringValue(assign.name)>>)>>)

CompileAssignAccess ==
    /\ AtExpression({"RULE_ASSIGN_ACCESS"})
    /\ LET assign_access == Head(stack).node
       IN Descend(assign_access.line,
                  <<ExpressionTask(assign_access.value), ExpressionTask(assign_access.index),
                    EmitTask("OP_STORE_ACCESS", <<StringValue(assign_access.name)>>)>>)

CompileLogical ==
    /\ AtExpression({"RULE_LOGICAL"})
    /\ LET logical == Head(stack).node
       IN Descend(logical.line, <<ExpressionTask(logical.left), ExpressionTask(logical.right),
                                  TokenTask(logical.op, FALSE)>>)

\* The selector is saved after the switch to the functions region instead of before.
CompileFunctionSavesLate ==
    /\ AtExpression({"RULE_FUNCTION"})
    /\ LET function == Head(stack).node
           index == current_code_line(program, "FUNCTIONS_MEMORY")
       IN /\ current_line' = function.line
          /\ current_memory' = "FUNCTIONS_MEMORY"
          /\ stack' = StatementTasks(function.arguments)
                      \o <<[t |-> "function_bind", arguments |-> function.arguments]>>
                      \o StatementTasks(function.body)
                      \o <<[t |-> "function_end", memory |-> "FUNCTIONS_MEMORY",
                            index |-> index, return_type |-> function.return_type]>>
                      \o Tail(stack)
          /\ literals' = Append(literals,
                 [selector_before |-> current_memory, start |-> Len(program["functions"].code),
                  closed |-> FALSE, selector_after |-> "", end |-> 0, function_slot |-> 0])
    /\ UNCHANGED <<structure, program, status, branches, emitter>>

\* RULE_FUNCTION up to the loop that compiles the arguments.
CompileFunction ==
    /\ AtExpression({"RULE_FUNCTION"})
    /\ LET function == Head(stack).node
           memory == current_memory
           index == current_code_line(program, "FUNCTIONS_MEMORY")
       IN /\ current_line' = function.line
          /\ current_memory' = "FUNCTIONS_MEMORY"
          /\ stack' = StatementTasks(function.arguments)
                      \o <<[t |-> "function_bind", arguments |-> function.arguments]>>
                      \o StatementTasks(function.body)
                      \o <<[t |-> "function_end", memory |-> memory,
                            index |-> index, return_type |-> function.return_type]>>
                      \o Tail(stack)
          /\ literals' = Append(literals,
                 [selector_before |-> current_memory, start |-> Len(program["functions"].code),
                  closed |-> FALSE, selector_after |-> "", end |-> 0, function_slot |-> 0])
    /\ UNCHANGED <<structure, program, status, branches, emitter>>

\* RULE_FUNCTION: the ONLY_STORE loop between the arguments and the body.
FunctionBind ==
    /\ At("function_bind")
    /\ LET arguments == Head(stack).arguments
       IN program' = bind_arguments(program, current_memory, current_line, arguments,
                                    Len(arguments) - 1)
    /\ stack' = Tail(stack)
    /\ UNCHANGED <<structure, current_memory, current_line, status, branches, literals>>
    /\ Observe

\* RULE_FUNCTION after the body: the trailer, the restore, and OP_FUNCTION.  The
\* return type is pushed as the string the node carries.
FunctionEnd ==
    /\ At("function_end")
    /\ LET task == Head(stack)
           p1 == add_opcode(add_constant(program, current_memory, current_line, NoneValue),
                            current_memory, current_line, "OP_RETURN")
           p2 == emit(p1, task.memory, current_line, "OP_FUNCTION",
                      <<IntValue(task.index), StringValue(task.return_type)>>)
           k == InnermostLiteral
           enclosing == Innermost(OpenLiterals(literals) \ {k})
       IN /\ current_memory' = task.memory
          /\ program' = p2
          /\ literals' = [literals EXCEPT ![k] =
                 [@ EXCEPT !.closed = TRUE,
                           !.selector_after = task.memory,
                           !.end = Len(p1["functions"].code),
                           !.function_slot =
                               Len(p1[get_current_memory(literals[k].selector_before)].code)]]
          /\ emitter' = Emitted(p1, p2, enclosing, Emitted(program, p1, k, emitter))
    /\ stack' = Tail(stack)
    /\ UNCHANGED <<structure, current_line, status, branches>>

\* The arguments in declared order, then OP_CALL, the callee and the count.
CompileCall ==
    /\ AtExpression({"RULE_CALL"})
    /\ LET call == Head(stack).node
       IN Descend(call.line,
                  ExpressionTasks(call.arguments)
                  \o <<EmitTask("OP_CALL", <<StringValue(call.callee),
                                             IntValue(Len(call.arguments))>>)>>)

CompileAccess ==
    /\ AtExpression({"RULE_ACCESS"})
    /\ LET access == Head(stack).node
       IN Descend(access.line, <<ExpressionTask(access.index),
                                 EmitTask("OP_ACCESS", <<StringValue(access.name)>>)>>)

\* The default case of the expression switch.
CompileInvalidExpression ==
    /\ Running
    /\ Head(stack).t = "expression"
    /\ Head(stack).node.rule \notin ExpressionRules
    /\ Fatal(Head(stack).node.line)

(***************************************************************************)
(* Compiler::compile of a Token                                            *)
(***************************************************************************)
CompileToken ==
    /\ At("token")
    /\ LET task == Head(stack)
           opcode == TokenOpcode(task.op.type, task.unary)
       IN IF opcode = ""
          THEN Fatal(task.op.line)
          ELSE /\ current_line' = task.op.line
               /\ program' = add_opcode(program, current_memory, task.op.line, opcode)
               /\ stack' = Tail(stack)
               /\ UNCHANGED <<structure, current_memory, status, branches, literals>>
               /\ Observe

(***************************************************************************)
(* The tail of a handler after its last recursive call.                    *)
(***************************************************************************)
Emit ==
    /\ At("emit")
    /\ program' = emit(program, current_memory, current_line,
                       Head(stack).opcode, Head(stack).operands)
    /\ stack' = Tail(stack)
    /\ UNCHANGED <<structure, current_memory, current_line, status, branches, literals>>
    /\ Observe

(***************************************************************************)
(* Compiler::compile(source): after the loop, OP_EXIT and the return.      *)
(***************************************************************************)
Finish ==
    /\ status = "compiling"
    /\ stack = <<>>
    /\ program' = add_opcode(program, current_memory, current_line, "OP_EXIT")
    /\ status' = "done"
    /\ UNCHANGED <<structure, current_memory, current_line, stack, branches, literals>>
    /\ Observe

Next ==
    \/ CompileBareRule
    \/ CompilePrint
    \/ CompileExpressionStatement
    \/ CompileDeclaration
    \/ CompileReturn
    \/ CompileIf
    \/ IfBranch
    \/ IfPatch
    \/ CompileWhile
    \/ WhileBranch
    \/ WhileEnd
    \/ CompileInvalidStatement
    \/ CompileLiteral
    \/ CompileList
    \/ CompileDictionary
    \/ CompileGroup
    \/ CompileUnary
    \/ CompileBinary
    \/ CompileVariable
    \/ CompileAssign
    \/ CompileAssignAccess
    \/ CompileLogical
    \/ CompileFunction
    \/ FunctionBind
    \/ FunctionEnd
    \/ CompileCall
    \/ CompileAccess
    \/ CompileInvalidExpression
    \/ CompileToken
    \/ Emit
    \/ Finish

Spec == Init /\ [][Next]_vars

(***************************************************************************)
(* Properties.                                                             *)
(***************************************************************************)
PatchedBranches(kind) ==
    { k \in DOMAIN branches : branches[k].kind = kind /\ branches[k].stage = "patched" }
ClosedLiterals == { k \in DOMAIN literals : literals[k].closed }
\* Literal k was written (its OP_FUNCTION emitted) inside the body of branch j.
LiteralInBody(k, j) ==
    /\ get_current_memory(literals[k].selector_before) = branches[j].memory
    /\ literals[k].function_slot > branches[j].operand
    /\ literals[k].function_slot < branches[j].end

\* C1: in every state, every region has as many line entries as code slots.
LinesParallelToCode ==
    \A r \in Regions : Len(program[r].code) = Len(program[r].lines)

\* C2: for every compiled while, the RJUMP offset added to the index of the slot
\* after the RJUMP operand gives the loop head.
RJumpReachesLoopHead ==
    \A k \in PatchedBranches("while") :
        LET b == branches[k]
            M == program[b.memory]
            offset == Constant(M, Slot(M, b.rjump_operand).index).i
        IN /\ Slot(M, b.rjump_operand - 1).op = "OP_RJUMP"
           /\ offset = -((b.rjump_operand + 1) - b.loop_head)
           /\ (b.rjump_operand + 1) + offset = b.loop_head

\* C3: for every compiled while, the BRANCH_FALSE offset added to the index of the
\* slot after its operand gives the slot after the RJUMP operand, which in the
\* finalized region is an opcode slot inside the code.
WhileExitLandsAfterLoop ==
    \A k \in PatchedBranches("while") :
        LET b == branches[k]
            M == program[b.memory]
            target == (b.operand + 1) + Constant(M, Slot(M, b.operand).index).i
        IN /\ target = b.rjump_operand + 1
           /\ (status = "done" =>
                  /\ target < Len(M.code)
                  /\ Slot(M, target).op # "")

\* C4: for every compiled if without else, the pool entry of the BRANCH_FALSE
\* operand is the number of slots of the if's own region from the slot after the
\* operand to the end of the then branch.
IfOffsetIsThenBranchLength ==
    \A k \in PatchedBranches("if") :
        LET b == branches[k]
            M == program[b.memory]
        IN /\ Slot(M, b.operand - 1).op = "OP_BRANCH_FALSE"
           /\ Slot(M, b.operand).op = ""
           /\ Constant(M, Slot(M, b.operand).index) = IntValue(b.end - (b.operand + 1))

\* An if with a non-empty then branch that contains a function literal is compiled.
IfWithFunctionInThenBranch ==
    /\ status = "done"
    /\ \E j \in PatchedBranches("if") : \E k \in ClosedLiterals :
           /\ LiteralInBody(k, j)
           /\ literals[k].end > literals[k].start
           /\ branches[j].end - (branches[j].operand + 1) >= 3

\* C5: scenario 2 yields DECLARE,0,1,PUSH,2,STORE,0,POP,EXIT over a pool of three
\* entries, and scenario 3 yields LOAD,0,PUSH,1,EQ,BRANCH_FALSE,2,LOAD,0,PRINT,EXIT.
NamesShareOnePoolEntry ==
    /\ (status = "done" /\ structure = Scenario2) =>
           /\ program["program"].code =
                  << OpSlot("OP_DECLARE"), OperandSlot(0), OperandSlot(1), OpSlot("OP_PUSH"),
                     OperandSlot(2), OpSlot("OP_STORE"), OperandSlot(0), OpSlot("OP_POP"),
                     OpSlot("OP_EXIT") >>
           /\ program["program"].constants = << StringValue("x"), TypeValue("int"), IntValue(5) >>
    /\ (status = "done" /\ structure = Scenario3) =>
           program["program"].code =
               << OpSlot("OP_LOAD"), OperandSlot(0), OpSlot("OP_PUSH"), OperandSlot(1),
                  OpSlot("OP_EQ"), OpSlot("OP_BRANCH_FALSE"), OperandSlot(2),
                  OpSlot("OP_LOAD"), OperandSlot(0), OpSlot("OP_PRINT"), OpSlot("OP_EXIT") >>

\* C6: while a function literal is being compiled the functions region is the
\* active one and no slot emitted for it lies in another region; once it is
\* compiled the selector is what it was before, its trailer ends its range in the
\* functions region, and OP_FUNCTION with two operands sits in the region that
\* was active before, the first operand's pool entry being the functions-region
\* length at entry.
FunctionLiteralsKeepRegion ==
    /\ \A r \in Regions \ {"functions"} : \A i \in DOMAIN emitter[r] : emitter[r][i] = 0
    /\ (status = "compiling" /\ InnermostLiteral # 0) => current_memory = "FUNCTIONS_MEMORY"
    /\ \A k \in ClosedLiterals :
           LET l == literals[k]
               M == program[get_current_memory(l.selector_before)]
               F == program["functions"]
           IN /\ l.selector_after = l.selector_before
              /\ l.start + 3 <= l.end
              /\ l.end <= Len(F.code)
              /\ Slot(F, l.end - 3).op = "OP_PUSH"
              /\ Constant(F, Slot(F, l.end - 2).index) = NoneValue
              /\ Slot(F, l.end - 1).op = "OP_RETURN"
              /\ l.function_slot + 2 < Len(M.code)
              /\ Slot(M, l.function_slot).op = "OP_FUNCTION"
              /\ Slot(M, l.function_slot + 1).op = ""
              /\ Slot(M, l.function_slot + 2).op = ""
              /\ Constant(M, Slot(M, l.function_slot + 1).index) = IntValue(l.start)

\* Function literals at the top level, inside another function's body and inside
\* an if or while body have all been compiled.
FunctionLiteralsEverywhere ==
    /\ status = "done"
    /\ \E k \in ClosedLiterals : literals[k].selector_before = "PROGRAM_MEMORY"
    /\ \E k \in ClosedLiterals : literals[k].selector_before = "FUNCTIONS_MEMORY"
    /\ \E k \in ClosedLiterals : \E j \in DOMAIN branches :
           branches[j].stage = "patched" /\ LiteralInBody(k, j)

\* C7: every operand slot of a region holds an index below the size of that
\* region's pool, and every back-patch runs with the region of the placeholder
\* active, on the placeholder's index, which is below the size of the pool.
ConstantsRegionLocal ==
    /\ \A r \in Regions : \A j \in DOMAIN program[r].code :
           program[r].code[j].op = "" =>
               /\ program[r].code[j].index >= 0
               /\ program[r].code[j].index < Len(program[r].constants)
    /\ \A k \in DOMAIN branches :
           branches[k].stage = "patched" =>
               /\ branches[k].patch_memory = branches[k].memory
               /\ branches[k].patch_index = branches[k].index
               /\ branches[k].patch_index < branches[k].patch_pool

\* A while whose body switched the region (a function literal with constants of
\* its own) has been patched.
PatchAfterRegionSwitch ==
    \E j \in PatchedBranches("while") : \E k \in ClosedLiterals :
        /\ LiteralInBody(k, j)
        /\ branches[j].memory = "program"
        /\ Len(program["functions"].constants) > 0

IsPrefix(s, t) == Len(s) <= Len(t) /\ \A i \in DOMAIN s : t[i] = s[i]
\* Pool entry i (from 0) of region r is the operand of a BRANCH_FALSE.
IsPlaceholder(r, i) ==
    \E j \in DOMAIN program[r].code :
        /\ j > 1
        /\ program[r].code[j].op = ""
        /\ program[r].code[j].index = i
        /\ program[r].code[j - 1].op = "OP_BRANCH_FALSE"
PendingPatches ==
    Cardinality({ i \in DOMAIN stack : stack[i].t \in {"if_patch", "while_end"} })
Unpatched == { k \in DOMAIN branches : branches[k].stage = "emitted" }

\* C8: in every step the code and lines of each region are extended and the pool
\* does not shrink; a pool entry that a step changes or patches is the operand of
\* a BRANCH_FALSE that was not patched before; every BRANCH_FALSE has one
\* placeholder, patched at most once, and the placeholders still to patch are
\* those of the statements being compiled (all patched when compile returns).
StreamsOnlyGrow ==
    [][ /\ \A r \in Regions :
             /\ IsPrefix(program[r].code, program'[r].code)
             /\ IsPrefix(program[r].lines, program'[r].lines)
             /\ Len(program[r].constants) <= Len(program'[r].constants)
             /\ \A i \in DOMAIN program[r].constants :
                    program'[r].constants[i] # program[r].constants[i] =>
                        /\ IsPlaceholder(r, i - 1)
                        /\ \E k \in DOMAIN branches :
                               /\ branches[k].memory = r
                               /\ branches[k].index = i - 1
                               /\ branches[k].patches = 0
                               /\ branches'[k].patches = 1
        /\ \A k \in DOMAIN branches :
               branches'[k].patches # branches[k].patches =>
                   /\ branches[k].patches = 0
                   /\ branches'[k].patches = 1
                   /\ IsPlaceholder(branches[k].memory, branches[k].index)
        /\ \A r \in Regions : \A j \in DOMAIN program'[r].code :
               program'[r].code[j].op = "OP_BRANCH_FALSE" =>
                   \E k \in DOMAIN branches' :
                       /\ branches'[k].memory = r
                       /\ branches'[k].operand = j
                       /\ branches'[k].index = program'[r].code[j + 1].index
        /\ Cardinality({ k \in DOMAIN branches' : branches'[k].stage = "emitted" })
               = Cardinality({ i \in DOMAIN stack' : stack'[i].t \in {"if_patch", "while_end"} })
        /\ (status' = "done" => \A k \in DOMAIN branches' : branches'[k].patches = 1)
      ]_vars

\* An inner placeholder is patched to a non-zero offset while an outer one waits.
PatchedInsidePending ==
    /\ Unpatched # {}
    /\ PendingPatches > 0
    /\ \E k \in DOMAIN branches :
           /\ branches[k].stage = "patched"
           /\ Constant(program[branches[k].memory], branches[k].index).i > 0

\* C9: compiling the operator of a Binary or Logical node is fatal only for a
\* token that is none of the arithmetic, comparison and logical operator tokens.
OperatorTokensCompile ==
    (status = "fatal" /\ stack # <<>> /\ Head(stack).t = "token" /\ ~Head(stack).unary) =>
        Head(stack).op.type \notin (ArithmeticTokens \cup ComparisonTokens \cup LogicalTokens)

\* C10: every slot of the functions region from a compiled literal's start address
\* to the end of its trailer was emitted for that literal.
FunctionRangesDisjoint ==
    \A k \in ClosedLiterals :
        \A i \in (literals[k].start + 1)..literals[k].end :
            emitter["functions"][i] = k

====
